---- MODULE Spec2Model ----
(***************************************************************************)
(* Model of panel_segmentation/panel_train.py: the class                   *)
(* TrainPanelSegmentationModel, its three training entry points, the dice  *)
(* metric and the statistics reporter.                                     *)
(*                                                                         *)
(* Arrays are modelled by what the code reads of them: an image array by   *)
(* its leading count, a mask array as the sequence of its element values   *)
(* (one value per sample), a history by the set of its keys.  The engine   *)
(* (Keras fit, detecto fit) is modelled by the calls the code makes to it  *)
(* and by the ModelCheckpoint callback the code configures; the metric     *)
(* values an epoch produces are inputs.                                    *)
(***************************************************************************)
EXTENDS Integers, Sequences, FiniteSets, TLC

\* ---------------------------------------------------------------- bounds
\* batch_size in 1..MaxBatch, no_epochs in 1..MaxEpochs, learning_rate in
\* 1..MaxLR, in units of 1e-4
MaxBatch == 2
MaxEpochs == 3
MaxLR == 2
\* trainSegmentation: arrays of 0..MaxN samples, mask elements in 0..MaxPixel
MaxN == 2
MaxPixel == 1
\* trainPanelClassifier: 0..MaxImages images found in a directory
MaxImages == 5
\* the monitored metric of an epoch, in 0..MaxMetric
MaxMetric == 2
\* diceCoeff: MaxPix elements per sample, each k / Levels for k in 0..Levels
MaxPix == 1
Levels == 2
\* trainMountingConfigClassifier: 1..MaxRows annotated objects
MaxRows == 5
\* trainingStatistics: mode in 0..MaxMode
MaxMode == 2

\* ---------------------------------------------------------------- state
VARIABLES
  batch_size, no_of_epochs, learning_rate,  \* self.* set by __init__
  pc,                \* "idle" | "fit" (inside the engine's fit loop)
  fn,                \* the training entry point called, "none" before any
  outcome,           \* "none" | "running" | "returned" | an error name
  args,              \* what the call was given (counts and mask maxima)
  nan_masks,         \* <<train, val>>: the mask handed to flow() holds NaN
  steps_per_epoch, validation_steps,   \* as passed to fit
  epoch,             \* epochs completed by fit
  monitored,         \* per-epoch values of the monitored validation metric
  best,              \* ModelCheckpoint.best
  writes,            \* per epoch: did ModelCheckpoint save the model
  ckpt_epoch,        \* epoch of this run whose weights the file holds, 0: none
  fit_call,          \* the batch size, epochs and optimizer lr the run trains with
  backbone,          \* the VGG16 layers shared through self.model / self.layer_dict
  start_backbone,    \* the backbone as the running or last call found it
  y_true, y_pred,    \* a batch: per sample, its elements in units of 1/Levels
  dice_calls,        \* which of diceCoeff, diceCoeffLoss have been applied
  terms,             \* per sample (2*intersection+smooth)/(union+smooth)
  dice,              \* the value diceCoeff returned, a fraction <<num, den>>
  loss,              \* the value diceCoeffLoss returned, a fraction
  train_table,       \* the training table as xml_to_csv wrote it
  train_csv,         \* train_path/annotations.csv as it is on disk
  val_csv,           \* val_path/annotations.csv as it is on disk
  mount_outcome,     \* "none" | "returned" | an error name
  mount_fit,         \* what detecto's fit was called with
  mount_args,        \* the two annotation directories the call was given
  mount_stage,       \* the step the call ended in
  mount_passes,      \* epochs of fit whose training loop ran
  history,           \* the keys of results.history given to the reporter
  mode,              \* the mode given to the reporter
  stat_outcome,      \* "none" | "returned" | "KeyError"
  reads,             \* the history keys looked up, in order
  log,               \* what was printed
  plots,             \* the series handed to plt.plot, in order
  saved              \* the names handed to plt.savefig, in order

trainerVars == <<batch_size, no_of_epochs, learning_rate>>
kerasVars == <<pc, fn, outcome, args, nan_masks, steps_per_epoch,
               validation_steps, epoch, monitored, best, writes, ckpt_epoch,
               fit_call, backbone, start_backbone>>
diceVars == <<y_true, y_pred, dice_calls, terms, dice, loss>>
mountVars == <<train_table, train_csv, val_csv, mount_outcome, mount_fit,
               mount_args, mount_stage, mount_passes>>
statVars == <<history, mode, stat_outcome, reads, log, plots, saved>>

\* ------------------------------------------------------- helper operators
RECURSIVE SeqsUpTo(_, _)
\* all sequences over S of length 0..n
SeqsUpTo(S, n) ==
  IF n = 0 THEN {<<>>}
  ELSE LET shorter == SeqsUpTo(S, n - 1)
       IN shorter \cup {Append(s, x) : s \in {t \in shorter : Len(t) = n - 1}, x \in S}

RECURSIVE SeqMax(_)
\* np.max of a non-empty array of non-negative values
SeqMax(s) ==
  IF Len(s) = 1 THEN s[1]
  ELSE LET m == SeqMax(Tail(s)) IN IF s[1] > m THEN s[1] ELSE m

\* ------------------------------------------------------------- __init__
Construct(b, e, lr) ==
  /\ batch_size = b
  /\ no_of_epochs = e
  /\ learning_rate = lr

NoArgs == [td |-> 0, tm |-> 0, tmax |-> 0, vd |-> 0, vm |-> 0, vmax |-> 0]

NoFitCall == [batch_size |-> 0, epochs |-> 0, learning_rate |-> 0]

\* Adam(lr=1e-4) of trainPanelClassifier, in units of 1e-4
ClassifierLR == 1

\* -inf, the initial ModelCheckpoint.best under mode='max'
NegInf == -1
\* a NaN metric value
NaN == -2

\* VGG16(weights='imagenet') as __init__ loads it: every layer trainable
FreshBackbone == [trainable |-> TRUE, weights |-> "imagenet"]

KerasIdle ==
  /\ pc = "idle"
  /\ fn = "none"
  /\ outcome = "none"
  /\ args = NoArgs
  /\ nan_masks = <<FALSE, FALSE>>
  /\ steps_per_epoch = 0
  /\ validation_steps = 0
  /\ epoch = 0
  /\ monitored = <<>>
  /\ best = NegInf
  /\ writes = <<>>
  /\ ckpt_epoch = 0
  /\ fit_call = NoFitCall
  /\ backbone = FreshBackbone
  /\ start_backbone = FreshBackbone

\* each call builds its own ModelCheckpoint and fit run: no epoch done, best
\* at -inf, nothing written
NewRun ==
  /\ epoch' = 0
  /\ monitored' = <<>>
  /\ best' = NegInf
  /\ writes' = <<>>
  /\ ckpt_epoch' = 0

\* ------------------------------------------------ trainSegmentation, pre-fit
\* x / np.max(x) elementwise, the fraction <<num, den>>: numpy does not raise
\* on a zero divisor, 0/0 is NaN (<<0, 0>>) and a/0 is inf (<<a, 0>>)
NpDivide(a, b) == <<a, b>>

NormalizeMask(mask) ==
  [i \in DOMAIN mask |-> NpDivide(mask[i], SeqMax(mask))]

HasNaN(arr) == \E i \in DOMAIN arr : arr[i] = <<0, 0>>

\* np.max raises ValueError on a zero-size array
NpMaxRaises(mask) == Len(mask) = 0

FlowNoLengthCheck(x_len, y_len) == FALSE

\* ImageDataGenerator.flow(x, y): NumpyArrayIterator raises ValueError when
\* len(x) != len(y)
FlowRaises(x_len, y_len) == x_len # y_len

CeilDiv(n, b) == (n + b - 1) \div b

\* n // b on non-negative ints
FloorDiv(n, b) == n \div b

\* the first statement of trainSegmentation that raises, "none" if none does
SegRaises(td, train_mask, vd, val_mask) ==
  IF NpMaxRaises(train_mask) THEN "ValueError:max"
  ELSE IF NpMaxRaises(val_mask) THEN "ValueError:max"
  ELSE IF FlowRaises(td, Len(train_mask)) THEN "ValueError:flow"
  ELSE IF FlowRaises(vd, Len(val_mask)) THEN "ValueError:flow"
  ELSE "none"

MaskMaxOrZero(mask) == IF Len(mask) = 0 THEN 0 ELSE SeqMax(mask)

Masks == SeqsUpTo(0..MaxPixel, MaxN)

\* trainSegmentation up to and including the call of fit; the epochs of fit
\* follow as EpochEnd steps and FitReturn
\* trainSegmentation called with image counts drawn from Counts and mask
\* arrays drawn from MaskSet
TrainSegmentationCall(Counts, MaskSet) ==
  /\ pc = "idle"
  /\ start_backbone' = backbone
  /\ \E td \in Counts, vd \in Counts, train_mask \in MaskSet, val_mask \in MaskSet :
       LET err == SegRaises(td, train_mask, vd, val_mask) IN
         /\ fn' = "trainSegmentation"
         /\ args' = [td |-> td, tm |-> Len(train_mask),
                     tmax |-> MaskMaxOrZero(train_mask),
                     vd |-> vd, vm |-> Len(val_mask),
                     vmax |-> MaskMaxOrZero(val_mask)]
         /\ IF err # "none"
            THEN /\ outcome' = err
                 /\ nan_masks' = <<FALSE, FALSE>>
                 /\ steps_per_epoch' = 0
                 /\ validation_steps' = 0
                 /\ fit_call' = NoFitCall
                 /\ UNCHANGED <<pc, backbone>>
            ELSE /\ outcome' = "running"
                 /\ pc' = "fit"
                 /\ backbone' = [backbone EXCEPT !.trainable = FALSE]
                 /\ nan_masks' = <<HasNaN(NormalizeMask(train_mask)),
                                   HasNaN(NormalizeMask(val_mask))>>
                 /\ fit_call' = [batch_size |-> batch_size,
                                  epochs |-> no_of_epochs,
                                  learning_rate |-> learning_rate]
                 /\ steps_per_epoch' = FloorDiv(td, batch_size)
                 /\ validation_steps' = FloorDiv(vd, batch_size)
  /\ NewRun
  /\ UNCHANGED trainerVars
  /\ UNCHANGED <<diceVars, mountVars, statVars>>

\* trainSegmentation on a trainer no method has been called on
TrainSegmentation == fn = "none" /\ TrainSegmentationCall(0..MaxN, Masks)

\* the arrays of the calls made one after another on one trainer: none or
\* one image, no mask or one mask with a panel pixel
SeqCounts == {0, 1}

SeqMasks == {<<>>, <<1>>}

\* trainSegmentation whenever no call is running
TrainSegmentationAnyTime == TrainSegmentationCall(SeqCounts, SeqMasks)

\* ---------------------------------------------- trainPanelClassifier, pre-fit
TrainPanelClassifierCall ==
  /\ pc = "idle"
  /\ start_backbone' = backbone
  /\ backbone' = [backbone EXCEPT !.trainable = TRUE]
  /\ nan_masks' = <<FALSE, FALSE>>
  /\ \E n_train \in 0..MaxImages, n_val \in 0..MaxImages :
       /\ fn' = "trainPanelClassifier"
       /\ args' = [NoArgs EXCEPT !.td = n_train, !.vd = n_val]
       /\ outcome' = "running"
       /\ pc' = "fit"
       /\ fit_call' = [batch_size |-> batch_size,
                        epochs |-> no_of_epochs,
                        learning_rate |-> ClassifierLR]
       /\ steps_per_epoch' = FloorDiv(n_train, batch_size)
       /\ validation_steps' = FloorDiv(n_val, batch_size)
  /\ NewRun
  /\ UNCHANGED trainerVars
  /\ UNCHANGED <<diceVars, mountVars, statVars>>

\* trainPanelClassifier on a trainer no method has been called on
TrainPanelClassifier == fn = "none" /\ TrainPanelClassifierCall

\* ------------------------------------------------------ fit and its callback
\* the values the monitored metric can take in an epoch: val_loss is NaN once
\* the masks fed to the loss hold NaN
MonitoredValues ==
  IF fn = "trainSegmentation" /\ (nan_masks[1] \/ nan_masks[2])
  THEN {NaN} ELSE 0..MaxMetric

\* ModelCheckpoint(mode='max'): monitor_op is np.greater, false on NaN
MonitorOp(current, bst) == current # NaN /\ current > bst

\* one epoch of fit ending: ModelCheckpoint.on_epoch_end with save_best_only
EpochEnd ==
  /\ pc = "fit"
  /\ epoch < no_of_epochs
  /\ \E current \in MonitoredValues :
       /\ epoch' = epoch + 1
       /\ monitored' = Append(monitored, current)
       /\ IF MonitorOp(current, best)
          THEN /\ best' = current
               /\ ckpt_epoch' = epoch + 1
               /\ writes' = Append(writes, TRUE)
          ELSE /\ writes' = Append(writes, FALSE)
               /\ UNCHANGED <<best, ckpt_epoch>>
  /\ backbone' = IF backbone.trainable /\ steps_per_epoch > 0
                 THEN [backbone EXCEPT !.weights = "finetuned"]
                 ELSE backbone
  /\ UNCHANGED <<pc, fn, outcome, args, nan_masks, steps_per_epoch, validation_steps,
                 fit_call, start_backbone>>
  /\ UNCHANGED trainerVars
  /\ UNCHANGED <<diceVars, mountVars, statVars>>

\* fit returns after the last epoch; the entry point returns (model, results)
FitReturn ==
  /\ pc = "fit"
  /\ epoch = no_of_epochs
  /\ pc' = "idle"
  /\ outcome' = "returned"
  /\ UNCHANGED <<fn, args, nan_masks, steps_per_epoch, validation_steps,
                 epoch, monitored, best, writes, ckpt_epoch, fit_call,
                 backbone, start_backbone>>
  /\ UNCHANGED trainerVars
  /\ UNCHANGED <<diceVars, mountVars, statVars>>

\* ------------------------------------------------- diceCoeff, diceCoeffLoss
\* Element values lie in [0,1]: the value k stands for k / Levels.  Results
\* are exact fractions <<num, den>>; a den of 0 is a division by zero.
DefaultSmooth == 1

DiceBatchSizes == {1, 2}

DiceIdle ==
  /\ y_true = <<>>
  /\ y_pred = <<>>
  /\ dice_calls = {}
  /\ terms = <<>>
  /\ dice = <<0, 1>>
  /\ loss = <<0, 1>>

RECURSIVE SumSeq(_)
\* K.sum over the elements of one sample
SumSeq(s) == IF s = <<>> THEN 0 ELSE s[1] + SumSeq(Tail(s))

\* y_true * y_pred elementwise, in units of 1 / Levels^2
Product(t, p) == [k \in DOMAIN t |-> t[k] * p[k]]

RatAdd(a, b) == <<a[1] * b[2] + b[1] * a[2], a[2] * b[2]>>

RECURSIVE RatSum(_)
RatSum(s) == IF s = <<>> THEN <<0, 1>> ELSE RatAdd(s[1], RatSum(Tail(s)))

\* K.mean over axis 0
RatMean(s) == LET t == RatSum(s) IN <<t[1], t[2] * Len(s)>>

OneMinus(a) == <<a[2] - a[1], a[2]>>

RatEq(a, b) == a[2] # 0 /\ b[2] # 0 /\ a[1] * b[2] = b[1] * a[2]

DiceTermNoDouble(t, p, smooth) ==
  <<SumSeq(Product(t, p)) + smooth * Levels * Levels,
    Levels * (SumSeq(t) + SumSeq(p)) + smooth * Levels * Levels>>

DiceTermNoSmooth(t, p, smooth) ==
  <<2 * SumSeq(Product(t, p)), Levels * (SumSeq(t) + SumSeq(p))>>

\* one sample's (2. * intersection + smooth) / (union + smooth), numerator and
\* denominator both scaled by Levels^2
DiceTerm(t, p, smooth) ==
  <<2 * SumSeq(Product(t, p)) + smooth * Levels * Levels,
    Levels * (SumSeq(t) + SumSeq(p)) + smooth * Levels * Levels>>

DiceTerms(yt, yp, smooth) == [i \in DOMAIN yt |-> DiceTerm(yt[i], yp[i], smooth)]

diceCoeff(yt, yp, smooth) == RatMean(DiceTerms(yt, yp, smooth))

diceCoeffLoss(yt, yp) == OneMinus(diceCoeff(yt, yp, DefaultSmooth))

\* a call of diceCoeff on the batch, with the default smooth
DiceCoeff ==
  /\ "diceCoeff" \notin dice_calls
  /\ dice_calls' = dice_calls \cup {"diceCoeff"}
  /\ terms' = DiceTerms(y_true, y_pred, DefaultSmooth)
  /\ dice' = diceCoeff(y_true, y_pred, DefaultSmooth)
  /\ UNCHANGED <<y_true, y_pred, loss>>
  /\ UNCHANGED <<trainerVars, kerasVars, mountVars, statVars>>

\* a call of diceCoeffLoss on the batch
DiceCoeffLoss ==
  /\ "diceCoeffLoss" \notin dice_calls
  /\ dice_calls' = dice_calls \cup {"diceCoeffLoss"}
  /\ loss' = diceCoeffLoss(y_true, y_pred)
  /\ UNCHANGED <<y_true, y_pred, terms, dice>>
  /\ UNCHANGED <<trainerVars, kerasVars, mountVars, statVars>>

\* the samples: MaxPix elements each, every element in 0..Levels
Samples == [1..MaxPix -> 0..Levels]

Batches(n) == [1..n -> Samples]


\* ------------------------------------------- trainMountingConfigClassifier
\* A table is a sequence of rows; a row is one labelled box: the position of
\* its XML object (standing for filename and box) and its class label.
MountClasses ==
  {"ground-fixed", "carport-fixed", "rooftop-fixed", "ground-single_axis_tracker"}

NoFit == [batch_size |-> 0, epochs |-> 0, learning_rate |-> 0, rows |-> 0]

\* an annotation directory: its XML parses or not, and the class labels of
\* the objects annotated in it (none: the directory holds no XML file)
Dir(ok, labels) == [ok |-> ok, labels |-> labels]

NoDirs == [train |-> Dir(TRUE, <<>>), val |-> Dir(TRUE, <<>>)]

MountIdle ==
  /\ train_table = <<>>
  /\ train_csv = <<>>
  /\ val_csv = <<>>
  /\ mount_outcome = "none"
  /\ mount_fit = NoFit
  /\ mount_args = NoDirs
  /\ mount_stage = "none"
  /\ mount_passes = 0

\* utils.xml_to_csv: one row per annotated object, in order
XmlToCsv(labels) == [i \in DOMAIN labels |-> [object |-> i, class |-> labels[i]]]

\* train_data[train_data['class'] == index].index
ClassIndexList(table, c) == {i \in DOMAIN table : table[i].class = c}

\* train_data['class'].value_counts(): the count of each class present
ClassCount(table) ==
  [c \in {table[i].class : i \in DOMAIN table} |-> Cardinality(ClassIndexList(table, c))]

\* class_count.max()
CountMax(cc) == CHOOSE m \in {cc[c] : c \in DOMAIN cc} : \A c \in DOMAIN cc : cc[c] <= m

\* the orders in which value_counts can list the classes: descending count,
\* ties in any order
ClassOrders(cc) ==
  {o \in [1..Cardinality(DOMAIN cc) -> DOMAIN cc] :
     /\ \A i, j \in DOMAIN o : i # j => o[i] # o[j]
     /\ \A i, j \in DOMAIN o : i < j => cc[o[i]] >= cc[o[j]]}

ResampleOneTooMany(max, count) == max - count + 1

\* number_times_resample
NumberTimesResample(max, count) == max - count

RECURSIVE Oversample(_, _, _, _)
\* the loop over class_count.items(): every table the loop can end with, for
\* every outcome of choices(class_index_list, k=number_times_resample)
Oversample(order, cc, table, resampled) ==
  IF order = <<>> THEN {resampled}
  ELSE LET c == Head(order)
           k == NumberTimesResample(CountMax(cc), cc[c])
           idxs == ClassIndexList(table, c)
       IN UNION {Oversample(Tail(order), cc, table,
                            resampled \o [j \in 1..k |-> table[idx_to_duplicate[j]]]) :
                 idx_to_duplicate \in [1..k -> idxs]}

\* all tables train_data_resampled can be when it is written back
Resampled(table) ==
  LET cc == ClassCount(table)
  IN UNION {Oversample(o, cc, table, table) : o \in ClassOrders(cc)}

TrainLabelSeqs == SeqsUpTo(MountClasses, MaxRows)

\* a label outside the list given to core.Model
OtherLabel == "pole-mounted"

ValLabelSeqs == {<<>>} \cup {<<c>> : c \in MountClasses \cup {OtherLabel}}

\* the directories a call can be given: malformed XML, or well-formed XML
\* annotating the objects of a label sequence
TrainDirs == {Dir(FALSE, <<>>)} \cup {Dir(TRUE, l) : l \in TrainLabelSeqs}

ValDirs == {Dir(FALSE, <<>>)} \cup {Dir(TRUE, l) : l \in ValLabelSeqs}

\* how a step of the call ends
End(out, stage, passes) == [outcome |-> out, stage |-> stage, passes |-> passes]

\* detecto's Model.fit(loader, val_dataset, epochs): each epoch runs the
\* training loop, then the validation loop, which maps every label through
\* the model's class list (KeyError on a label not in it) and divides the
\* summed loss by len(val_dataset) (ZeroDivisionError on an empty one)
DetectoFit(val_labels, epochs) ==
  IF \E i \in DOMAIN val_labels : val_labels[i] \notin MountClasses
  THEN End("KeyError", "fit", 1)
  ELSE IF val_labels = <<>> THEN End("ZeroDivisionError", "fit", 1)
  ELSE End("returned", "done", epochs)

\* where and how the call ends.  sampler_raises: whether the installed torch
\* rejects an empty dataset when DataLoader(shuffle=True) builds its sampler
MountEnd(train, val, sampler_raises, epochs) ==
  IF ~train.ok THEN End("ParseError", "xml_to_csv", 0)
  ELSE IF ~val.ok THEN End("ParseError", "xml_to_csv", 0)
  ELSE IF train.labels = <<>> /\ sampler_raises THEN End("ValueError", "DataLoader", 0)
  ELSE DetectoFit(val.labels, epochs)

\* trainMountingConfigClassifier: conversion, oversampling, rewrite, dataset,
\* fit, return
TrainMountingConfigClassifier ==
  /\ mount_outcome = "none"
  /\ \E train \in TrainDirs, val \in ValDirs, sampler_raises \in BOOLEAN :
       LET train_data == XmlToCsv(train.labels)
           end == MountEnd(train, val, sampler_raises, no_of_epochs)
       IN
         \E train_data_resampled \in Resampled(train_data) :
           /\ mount_args' = [train |-> train, val |-> val]
           /\ mount_outcome' = end.outcome
           /\ mount_stage' = end.stage
           /\ mount_passes' = end.passes
           /\ train_table' = IF train.ok THEN train_data ELSE train_table
           /\ train_csv' = IF end.stage = "xml_to_csv"
                           THEN (IF train.ok THEN train_data ELSE train_csv)
                           ELSE train_data_resampled
           /\ val_csv' = IF end.stage = "xml_to_csv" THEN val_csv
                         ELSE XmlToCsv(val.labels)
           /\ mount_fit' = IF end.stage \in {"fit", "done"}
                           THEN [batch_size |-> batch_size, epochs |-> no_of_epochs,
                                 learning_rate |-> learning_rate,
                                 rows |-> Len(train_data_resampled)]
                           ELSE mount_fit
  /\ UNCHANGED <<trainerVars, kerasVars, diceVars, statVars>>

\* ------------------------------------------------------ trainingStatistics
HistoryKeys ==
  {"accuracy", "loss", "diceCoeff", "val_accuracy", "val_loss", "val_diceCoeff"}

StatsIdle ==
  /\ history = {}
  /\ mode = 0
  /\ stat_outcome = "none"
  /\ reads = <<>>
  /\ log = <<>>
  /\ plots = <<>>
  /\ saved = <<>>

IsSegModeTruthy(m) == m # 0

\* mode == 1
IsSegMode(m) == m = 1

\* the lookups before the try block, in order
TrainLookups(m) ==
  <<"accuracy", "loss">> \o (IF IsSegMode(m) THEN <<"diceCoeff">> ELSE <<>>)

\* the lookups inside the try block, in order
ValLookups(m) ==
  <<"val_accuracy", "val_loss">> \o (IF IsSegMode(m) THEN <<"val_diceCoeff">> ELSE <<>>)

\* position of the first lookup of ks that raises KeyError on h, 0 if none
FirstMissing(ks, h) ==
  IF \A i \in DOMAIN ks : ks[i] \in h THEN 0
  ELSE CHOOSE i \in DOMAIN ks : ks[i] \notin h /\ \A j \in 1..(i - 1) : ks[j] \in h

\* the lookups made of ks on h: all of them, or up to the one that raises
Looked(ks, h) ==
  IF FirstMissing(ks, h) = 0 THEN ks ELSE SubSeq(ks, 1, FirstMissing(ks, h))

ValidationMetricsAccuracyOnly(h, m) == "val_accuracy" \in h

\* validation_metrics after the try/except: True unless a lookup raised
ValidationMetrics(h, m) == FirstMissing(ValLookups(m), h) = 0

\* the plt.plot calls with the plt.savefig that follows them, in order:
\* <<series plotted, name saved>>
Figures(h, m) ==
  LET seg == IsSegMode(m)
      val == ValidationMetrics(h, m)
  IN (IF seg THEN <<[series |-> <<"train_dice_coef">>, name |-> "Train_dice_coef"]>>
      ELSE <<>>)
     \o <<[series |-> <<"train_loss">>, name |-> "Train_loss"],
          [series |-> <<"train_accuracy">>, name |-> "Train_accuracy"]>>
     \o (IF val /\ seg
         THEN <<[series |-> <<"val_dice_coef">>, name |-> "VAL_dice_coef"]>> ELSE <<>>)
     \o (IF val
         THEN <<[series |-> <<"val_loss">>, name |-> "VAL_loss"],
                [series |-> <<"val_accuracy">>, name |-> "VAL_accuracy"]>>
         ELSE <<>>)
     \o <<[series |-> <<"train_accuracy", "train_loss">>
                      \o (IF seg THEN <<"train_dice_coef">> ELSE <<>>),
           name |-> "Training statistics"]>>
     \o (IF val
         THEN <<[series |-> <<"val_accuracy", "val_loss">>
                            \o (IF seg THEN <<"val_dice_coef">> ELSE <<>>),
                 name |-> "Validation statistics"]>>
         ELSE <<>>)

RECURSIVE Flatten(_)
Flatten(ss) == IF ss = <<>> THEN <<>> ELSE ss[1] \o Flatten(Tail(ss))

\* trainingStatistics(results, mode), results.history having the keys h
TrainingStatistics ==
  /\ stat_outcome = "none"
  /\ \E h \in SUBSET HistoryKeys, m \in 0..MaxMode :
       /\ history' = h
       /\ mode' = m
       /\ IF FirstMissing(TrainLookups(m), h) # 0
          THEN \* KeyError outside the try block
               /\ stat_outcome' = "KeyError"
               /\ reads' = Looked(TrainLookups(m), h)
               /\ log' = <<>>
               /\ plots' = <<>>
               /\ saved' = <<>>
          ELSE /\ stat_outcome' = "returned"
               /\ reads' = TrainLookups(m) \o Looked(ValLookups(m), h)
               /\ log' = IF ValidationMetrics(h, m) THEN <<>>
                         ELSE <<"No validation metrics available.",
                                ValLookups(m)[FirstMissing(ValLookups(m), h)]>>
               /\ plots' = Flatten([i \in DOMAIN Figures(h, m) |-> Figures(h, m)[i].series])
               /\ saved' = [i \in DOMAIN Figures(h, m) |-> Figures(h, m)[i].name]
  /\ UNCHANGED <<trainerVars, kerasVars, diceVars, mountVars>>

\* ------------------------------------------------------------ properties
\* fit has been invoked by the call
FitInvoked == outcome \in {"running", "returned"}

\* the call ended in an error
Raised == outcome \in {"ValueError:max", "ValueError:flow"}

\* a is a strict improvement over b for the metric the entry point
\* monitors: val_loss (trainSegmentation) improves downwards, val_accuracy
\* (trainPanelClassifier) upwards
Improves(f, a, b) ==
  a # NaN /\ (IF f = "trainSegmentation" THEN a < b ELSE a > b)

\* C2: in every run the checkpoint is written at the end of an epoch only if
\* that epoch's monitored validation metric strictly improves over the value
\* of every previous epoch of the run.
C2_WriteOnlyOnStrictImprovement ==
  \A e \in DOMAIN writes :
    writes[e] => \A j \in 1..(e - 1) : Improves(fn, monitored[e], monitored[j])

\* the first epoch whose value is the lowest of the run
FirstArgMin(s) ==
  CHOOSE e \in DOMAIN s :
    /\ \A j \in DOMAIN s : s[e] <= s[j]
    /\ \A j \in 1..(e - 1) : s[j] > s[e]

\* C3: after a completed trainSegmentation run the checkpoint holds the
\* weights of the epoch whose validation loss is the lowest of the run, the
\* first such epoch on ties.
C3_CheckpointHoldsLowestValLoss ==
  (fn = "trainSegmentation" /\ outcome = "returned"
     /\ \A e \in DOMAIN monitored : monitored[e] # NaN)
    => ckpt_epoch = FirstArgMin(monitored)

\* C4: the training steps per epoch and the validation steps passed to fit
\* are floor(n / b): steps * b <= n < (steps + 1) * b, so n - steps * b, the
\* n mod b remainder, is what an epoch leaves out.
C4_StepsAreFloor ==
  FitInvoked =>
    /\ steps_per_epoch * batch_size <= args.td
    /\ args.td < (steps_per_epoch + 1) * batch_size
    /\ validation_steps * batch_size <= args.vd
    /\ args.vd < (validation_steps + 1) * batch_size

\* a run whose sample counts leave a remainder, with at least one full step
C4_Witness ==
  /\ FitInvoked
  /\ steps_per_epoch >= 1 /\ args.td > steps_per_epoch * batch_size
  /\ args.vd > validation_steps * batch_size

\* the mask array given to the call is non-empty and all zero
AllZero(count, max) == count > 0 /\ max = 0

\* C9: a trainSegmentation call with an all-zero training or validation
\* mask ends in an error before any training step.
C9_AllZeroMaskIsFatal ==
  (fn = "trainSegmentation"
     /\ (AllZero(args.tm, args.tmax) \/ AllZero(args.vm, args.vmax)))
    => (Raised /\ pc = "idle" /\ epoch = 0)

\* the leading counts of images and masks differ
CountsDiffer == args.td # args.tm \/ args.vd # args.vm

\* C10: a trainSegmentation call whose image and mask counts differ (train or
\* validation) ends in an error before fit is invoked: no epoch runs and no
\* checkpoint is written.
C10_CountMismatchIsFatal ==
  (fn = "trainSegmentation" /\ CountsDiffer)
    => (Raised /\ pc = "idle" /\ epoch = 0 /\ writes = <<>> /\ ckpt_epoch = 0)

\* a mismatch between non-empty arrays, caught by flow()
C10_Witness ==
  /\ fn = "trainSegmentation"
  /\ args.tm > 0 /\ args.vm > 0 /\ args.td > 0 /\ args.td # args.tm
  /\ outcome = "ValueError:flow"

\* every element of the batch is 0 or 1
Binary(y) == \A i \in DOMAIN y : \A k \in DOMAIN y[i] : y[i][k] \in {0, Levels}

IsOne(a) == a[2] # 0 /\ a[1] = a[2]

\* C7 as claimed: whenever truth equals prediction at every element (values
\* anywhere in [0,1]), diceCoeff with smooth 1 returns 1.
C7_EqualArraysGiveOne ==
  ("diceCoeff" \in dice_calls /\ y_true = y_pred) => IsOne(dice)

\* C7 as amended: whenever truth equals prediction at every element and every
\* element is 0 or 1, diceCoeff with smooth 1 returns 1, the all-zero batch
\* included (numerator and denominator are both the smoothing constant).
C7_EqualBinaryArraysGiveOne ==
  ("diceCoeff" \in dice_calls /\ y_true = y_pred /\ Binary(y_true)) => IsOne(dice)

\* an equal binary batch with an all-zero sample and a sample that is not
C7_Witness ==
  /\ "diceCoeff" \in dice_calls
  /\ y_true = y_pred /\ Binary(y_true)
  /\ \E i \in DOMAIN y_true : SumSeq(y_true[i]) = 0
  /\ \E i \in DOMAIN y_true : SumSeq(y_true[i]) > 0
  /\ IsOne(dice)

\* C8: with elements in [0,1] and smooth 1, every per-sample denominator is
\* nonzero and the batch mean lies in (0,1]; diceCoeffLoss is exactly
\* 1 - diceCoeff and lies in [0,1).
C8_DiceInUnitInterval ==
  /\ "diceCoeff" \in dice_calls =>
       /\ Len(terms) = Len(y_true)
       /\ \A i \in DOMAIN terms : terms[i][2] > 0
       /\ dice[2] > 0 /\ 0 < dice[1] /\ dice[1] <= dice[2]
  /\ "diceCoeffLoss" \in dice_calls =>
       /\ loss[2] > 0 /\ 0 <= loss[1] /\ loss[1] < loss[2]
       /\ "diceCoeff" \in dice_calls => RatEq(RatAdd(loss, dice), <<1, 1>>)

\* both applied to a batch of two whose prediction differs from the truth
C8_Witness ==
  /\ dice_calls = {"diceCoeff", "diceCoeffLoss"}
  /\ Len(y_true) = 2 /\ y_true # y_pred
  /\ dice[1] < dice[2] /\ loss[1] > 0
  /\ \E i \in DOMAIN y_true : SumSeq(y_true[i]) + SumSeq(y_pred[i]) = 0

\* number of rows of a table with class c
RowsOfClass(table, c) == Cardinality({i \in DOMAIN table : table[i].class = c})

ClassesOf(table) == {table[i].class : i \in DOMAIN table}

\* the largest per-class row count of a table
MaxClassRows(table) ==
  CHOOSE m \in 0..Len(table) :
    /\ \A c \in ClassesOf(table) : RowsOfClass(table, c) <= m
    /\ \E c \in ClassesOf(table) : RowsOfClass(table, c) = m

RECURSIVE SumDeficits(_, _)
\* the sum over the classes cs of (maximum count - class count)
SumDeficits(table, cs) ==
  IF cs = {} THEN 0
  ELSE LET c == CHOOSE x \in cs : TRUE
       IN (MaxClassRows(table) - RowsOfClass(table, c)) + SumDeficits(table, cs \ {c})

\* C1: the table written back after class balancing has, for every class,
\* as many rows as the largest class of the original table; its row count is
\* the original count plus the sum of the per-class deficits; and the
\* original rows are all still there, unaltered.
C1_BalancedTable ==
  mount_outcome = "returned" =>
    /\ ClassesOf(train_csv) = ClassesOf(train_table)
    /\ \A c \in ClassesOf(train_table) :
         RowsOfClass(train_csv, c) = MaxClassRows(train_table)
    /\ Len(train_csv) =
         Len(train_table) + SumDeficits(train_table, ClassesOf(train_table))
    /\ Len(train_csv) >= Len(train_table)
    /\ \A i \in DOMAIN train_table : train_csv[i] = train_table[i]

\* a table with classes of 3 and 2 rows, balanced by duplicating one of the
\* two rows of the smaller class, the second of them
C1_Witness ==
  /\ mount_outcome = "returned"
  /\ \E c, d \in ClassesOf(train_table) :
       /\ RowsOfClass(train_table, c) = 3 /\ RowsOfClass(train_table, d) = 2
       /\ RowsOfClass(train_csv, c) = 3 /\ RowsOfClass(train_csv, d) = 3
       /\ \E i \in DOMAIN train_table :
            /\ train_table[i].class = d
            /\ \E j \in 1..(i - 1) : train_table[j].class = d
            /\ train_csv[Len(train_csv)] = train_table[i]
  /\ Len(train_csv) = Len(train_table) + 1

\* the elements of a sequence
Range(s) == {s[i] : i \in DOMAIN s}

TrainArtifacts(m) ==
  {"Train_loss", "Train_accuracy", "Training statistics"}
    \cup (IF m = 1 THEN {"Train_dice_coef"} ELSE {})

ValArtifacts == {"VAL_dice_coef", "VAL_loss", "VAL_accuracy", "Validation statistics"}

\* the history has the training keys of the mode
HasTrainKeys(h, m) ==
  {"accuracy", "loss"} \subseteq h /\ (m = 1 => "diceCoeff" \in h)

\* the history lacks a validation key the mode reads
LacksValKeys(h, m) ==
  ~({"val_accuracy", "val_loss"} \subseteq h /\ (m = 1 => "val_diceCoeff" \in h))

\* C5: for every mode, given a history with the training keys that lacks
\* validation keys, trainingStatistics returns without raising, logs that no
\* validation metrics are available, saves every training-side artifact of
\* the mode and no validation-side artifact.
C5_TrainingOnlyHistory ==
  (stat_outcome # "none" /\ HasTrainKeys(history, mode) /\ LacksValKeys(history, mode))
    => /\ stat_outcome = "returned"
       /\ "No validation metrics available." \in Range(log)
       /\ Range(saved) = TrainArtifacts(mode)
       /\ Range(saved) \cap ValArtifacts = {}

\* segmentation mode, accuracy and loss validation keys present, the
\* validation dice key missing
C5_Witness ==
  /\ stat_outcome = "returned"
  /\ mode = 1
  /\ history = {"accuracy", "loss", "diceCoeff", "val_accuracy", "val_loss"}
  /\ "Train_dice_coef" \in Range(saved)
  /\ Len(log) > 0

DiceKeys == {"diceCoeff", "val_diceCoeff"}

DiceSeries == {"train_dice_coef", "val_dice_coef"}

DiceArtifacts == {"Train_dice_coef", "VAL_dice_coef"}

\* C6: given a history with all training and validation keys, dice artifacts
\* are saved iff mode == 1: mode 1 saves the train and validation dice curves
\* besides loss, accuracy and combined plots for training and validation; any
\* other mode saves only those six and neither reads nor plots a dice key.
\* Every plot of a call is saved under its own name.
C6_DiceOnlyInSegMode ==
  (stat_outcome # "none" /\ history = HistoryKeys)
    => /\ stat_outcome = "returned"
       /\ (Range(saved) \cap DiceArtifacts # {}) <=> (mode = 1)
       /\ mode = 1 =>
            Range(saved) = TrainArtifacts(1) \cup ValArtifacts
       /\ mode # 1 =>
            /\ Range(saved) = {"Train_loss", "Train_accuracy", "Training statistics",
                               "VAL_loss", "VAL_accuracy", "Validation statistics"}
            /\ Range(reads) \cap DiceKeys = {}
            /\ Range(plots) \cap DiceSeries = {}
       /\ \A i, j \in DOMAIN saved : i # j => saved[i] # saved[j]

\* a full history reported in a mode other than 0 and 1
C6_Witness ==
  /\ stat_outcome = "returned"
  /\ history = HistoryKeys
  /\ mode = 2
  /\ Len(saved) = 6

\* the batch size, epoch count and learning rate the trainer was built with
Constructed ==
  [batch_size |-> batch_size, epochs |-> no_of_epochs,
   learning_rate |-> learning_rate]


vars == <<trainerVars, kerasVars, diceVars, mountVars, statVars>>

\* every fit of trainSegmentation runs with the backbone frozen, every fit
\* of trainPanelClassifier with the backbone trainable
TrainsWithOwnFlags ==
  FitInvoked => (backbone.trainable <=> fn = "trainPanelClassifier")

\* C13: in any sequence of trainSegmentation / trainPanelClassifier calls on
\* one trainer, each call starts from the backbone of a fresh trainer (same
\* trainable flags, pretrained weights), so an earlier trainPanelClassifier
\* does not change what a later trainSegmentation builds on; trainSegmentation
\* trains with the first 18 layers frozen and trainPanelClassifier with all
\* backbone layers trainable.
C13_CallsStartFromFreshBackbone ==
  fn # "none" => start_backbone = FreshBackbone /\ TrainsWithOwnFlags

\* a later trainSegmentation builds on the pretrained weights
SegmentationBuildsOnPretrained ==
  fn = "trainSegmentation" => start_backbone.weights = "imagenet"

MountErrors == {"ParseError", "ValueError", "ZeroDivisionError", "KeyError"}

\* C12: every fatal configuration error of trainMountingConfigClassifier
\* surfaces before fit starts: malformed XML is raised in the conversion
\* step, before the training table is balanced or rewritten; an empty
\* annotation directory, and a validation label outside the four-class set,
\* abort the call before fit is invoked.
C12_FatalErrorsBeforeFit ==
  mount_outcome # "none" =>
    /\ mount_outcome \in MountErrors =>
         mount_stage \notin {"fit", "done"} /\ mount_passes = 0 /\ mount_fit = NoFit
    /\ (~mount_args.train.ok \/ ~mount_args.val.ok) =>
         /\ mount_outcome = "ParseError" /\ mount_stage = "xml_to_csv"
         /\ train_csv \in {<<>>, train_table}
    /\ (mount_args.train.ok /\ mount_args.val.ok
          /\ (\/ mount_args.train.labels = <<>>
              \/ mount_args.val.labels = <<>>
              \/ \E i \in DOMAIN mount_args.val.labels :
                   mount_args.val.labels[i] \notin MountClasses)) =>
         mount_outcome \in MountErrors /\ mount_fit = NoFit

\* C11: no step changes the three values fixed at construction, and each of
\* trainSegmentation, trainPanelClassifier and trainMountingConfigClassifier
\* trains with exactly the constructed batch size, epoch count and learning
\* rate.
C11_ConfigSharedByAllPipelines ==
  [][/\ trainerVars' = trainerVars
     /\ FitInvoked' => fit_call' = Constructed'
     /\ mount_outcome' = "returned" =>
          /\ mount_fit'.batch_size = batch_size'
          /\ mount_fit'.epochs = no_of_epochs'
          /\ mount_fit'.learning_rate = learning_rate']_vars

Init ==
  /\ \E b \in 1..MaxBatch, e \in 1..MaxEpochs, lr \in 1..MaxLR : Construct(b, e, lr)
  /\ KerasIdle
  /\ DiceIdle
  /\ MountIdle
  /\ StatsIdle

Next ==
  \/ TrainSegmentation
  \/ TrainPanelClassifier
  \/ EpochEnd
  \/ FitReturn

Spec == Init /\ [][Next]_vars

InitDice ==
  /\ Construct(1, 1, 1)
  /\ KerasIdle
  /\ \E n \in DiceBatchSizes :
       /\ y_true \in Batches(n)
       /\ y_pred \in Batches(n)
  /\ dice_calls = {}
  /\ terms = <<>>
  /\ dice = <<0, 1>>
  /\ loss = <<0, 1>>
  /\ MountIdle
  /\ StatsIdle

NextDice == DiceCoeff \/ DiceCoeffLoss

SpecDice == InitDice /\ [][NextDice]_vars

InitMount ==
  /\ Construct(1, 1, 1)
  /\ KerasIdle
  /\ DiceIdle
  /\ MountIdle
  /\ StatsIdle

NextMount == TrainMountingConfigClassifier

SpecMount == InitMount /\ [][NextMount]_vars
NextStats == TrainingStatistics

SpecStats == Init /\ [][NextStats]_vars

\* any sequence of calls on one trainer: a method may be called again once
\* the previous call has returned or raised
InitSeq ==
  /\ Construct(1, 1, 1)
  /\ KerasIdle
  /\ DiceIdle
  /\ MountIdle
  /\ StatsIdle

NextSeq ==
  \/ TrainSegmentationAnyTime
  \/ TrainPanelClassifierCall
  \/ EpochEnd
  \/ FitReturn

SpecSeq == InitSeq /\ [][NextSeq]_vars

====
